---- MODULE Spec2Model ----
(***************************************************************************)
(* Model of the diff core of patchy (src/patchy_core.py): the hunk applier *)
(* DiffApplier.apply with its anchoring helpers, and summarize_patch.      *)
(*                                                                         *)
(* A text is a sequence of tokens: the token NL is a line break, any other *)
(* token is the (non-empty) content of one line.  A line is a string, the  *)
(* empty string being a blank line.  Indices of the program are 0-based;   *)
(* sequences here are 1-based, so the program's out[cur] is out[cur + 1].  *)
(*                                                                         *)
(* apply runs by steps: anchoring of a hunk, the verify pass and the apply *)
(* pass one hunk line at a time, the return.  Its inputs are drawn in Init *)
(* from every text and every FilePatch within the bounds, and from two     *)
(* worked scenarios.                                                       *)
(***************************************************************************)
EXTENDS Integers, Sequences, FiniteSets, TLC

\* ------------------------------------------------------------------ bounds

\* longest original text, in tokens
MaxTextLen == 3
\* longest diff of a FilePatch, in lines: one per hunk header and hunk line
MaxDiffLines == 4
\* largest old_start of a hunk header
MaxOldStart == 1
\* most lines of a drawn diff after its start
MaxParseLines == 3
\* largest number of the hunk headers that are written out
MaxHeaderNumber == 4
\* longest original text of the anchoring runs, in tokens
MaxAnchorTextLen == 4
\* most lines of the hunk that is anchored in the anchoring runs
MaxAnchorHunkLines == 2
\* largest old_start of the hunk that is anchored in the anchoring runs
MaxAnchorOldStart == 3

\* ------------------------------------------------------------- data model

NL == "\n"

\* contents of non-blank lines
Words == {"a"}

LineTexts == Words \cup {""}

Kinds == {" ", "+", "-"}

HunkLine(kind, text) == [kind |-> kind, text |-> text]

HunkLines == [kind : Kinds, text : LineTexts]

Hunk(old_start, old_len, new_start, new_len, lines) ==
    [old_start |-> old_start, old_len |-> old_len,
     new_start |-> new_start, new_len |-> new_len, lines |-> lines]

FilePatch(old_path, new_path, hunks) ==
    [old_path |-> old_path, new_path |-> new_path, hunks |-> hunks]

ApplyResult(text, added, removed) ==
    [text |-> text, added_lines |-> added, removed_lines_original |-> removed]

\* Optional[...]: None, or one value
None == <<>>

Some(x) == <<x>>

\* --------------------------------------------------------- text <-> lines

RECURSIVE SplitFrom(_, _, _, _)
SplitFrom(text, i, pending, acc) ==
    IF i > Len(text)
    THEN IF pending = "" THEN acc ELSE Append(acc, pending)
    ELSE IF text[i] = NL
         THEN SplitFrom(text, i + 1, "", Append(acc, pending))
         ELSE SplitFrom(text, i + 1, text[i], acc)

\* str.splitlines(): a final line break does not open another line
splitlines(text) == SplitFrom(text, 1, "", <<>>)

LineTokens(line) == IF line = "" THEN <<>> ELSE <<line>>

RECURSIVE JoinFrom(_, _)
JoinFrom(lines, i) ==
    IF i > Len(lines) THEN <<>>
    ELSE IF i = Len(lines) THEN LineTokens(lines[i])
    ELSE LineTokens(lines[i]) \o <<NL>> \o JoinFrom(lines, i + 1)

\* '\n'.join(lines)
JoinLines(lines) == JoinFrom(lines, 1)

\* ------------------------------------------------------ anchoring helpers

Consuming(lines) == SelectSeq(lines, LAMBDA hl : hl.kind \in {" ", "-"})

RECURSIVE MinNeedFrom(_, _)
MinNeedFrom(consuming, i) ==
    IF i > Len(consuming) THEN 0
    ELSE (IF consuming[i].kind = "-" \/ consuming[i].text # "" THEN 1 ELSE 0)
         + MinNeedFrom(consuming, i + 1)

\* every consuming line counted, the blank context lines too
ConsumingLength(consuming) == Len(consuming)

_min_consuming_length(consuming) == MinNeedFrom(consuming, 1)

\* a skip of one line, blank or not
SkipOneLine(lines, cur) == IF cur < Len(lines) THEN cur + 1 ELSE cur

\* while cur < len(lines) and lines[cur] == '': cur += 1
RECURSIVE SkipBlanks(_, _)
SkipBlanks(lines, cur) ==
    IF cur < Len(lines) /\ lines[cur + 1] = ""
    THEN SkipBlanks(lines, cur + 1)
    ELSE cur

\* lines[cur] is there and is this text
LineIs(lines, cur, text) == cur < Len(lines) /\ lines[cur + 1] = text

RECURSIVE MatchFrom(_, _, _, _)
MatchFrom(lines, consuming, i, cur) ==
    IF i > Len(consuming) THEN TRUE
    ELSE IF consuming[i].kind = " " /\ consuming[i].text = ""
         THEN MatchFrom(lines, consuming, i + 1, SkipBlanks(lines, cur))
         ELSE /\ LineIs(lines, cur, consuming[i].text)
              /\ MatchFrom(lines, consuming, i + 1, cur + 1)

_hunk_matches_from(lines, consuming, start) == MatchFrom(lines, consuming, 1, start)

Max(a, b) == IF a > b THEN a ELSE b

Min(a, b) == IF a < b THEN a ELSE b

RECURSIVE FuzzyWindow(_, _, _, _, _, _)
FuzzyWindow(lines, consuming, guess, max_start, d, fuzzy) ==
    IF d > fuzzy THEN None
    ELSE IF /\ 0 <= guess - d
            /\ guess - d <= max_start
            /\ _hunk_matches_from(lines, consuming, guess - d)
         THEN Some(guess - d)
    ELSE IF /\ 0 <= guess + d
            /\ guess + d <= max_start
            /\ _hunk_matches_from(lines, consuming, guess + d)
         THEN Some(guess + d)
    ELSE FuzzyWindow(lines, consuming, guess, max_start, d + 1, fuzzy)

\* the scan from max_start down
RECURSIVE GlobalScanDown(_, _, _, _)
GlobalScanDown(lines, consuming, pos, max_start) ==
    IF pos > max_start THEN None
    ELSE IF _hunk_matches_from(lines, consuming, max_start - pos)
         THEN Some(max_start - pos)
    ELSE GlobalScanDown(lines, consuming, pos + 1, max_start)

RECURSIVE GlobalScan(_, _, _, _)
GlobalScan(lines, consuming, pos, max_start) ==
    IF pos > max_start THEN None
    ELSE IF _hunk_matches_from(lines, consuming, pos) THEN Some(pos)
    ELSE GlobalScan(lines, consuming, pos + 1, max_start)

\* the search started at the guess as it comes, not brought back to max_start
FindHunkAnchorFromGuess(lines, hunk, guess_index, fuzzy) ==
    LET consuming == Consuming(hunk.lines)
        min_need  == _min_consuming_length(consuming)
        max_start == Max(0, Len(lines) - min_need)
        guess     == Max(0, guess_index)
    IN  IF consuming = <<>>
        THEN Some(Max(0, Min(Len(lines), guess_index)))
        ELSE IF _hunk_matches_from(lines, consuming, guess)
        THEN Some(guess)
        ELSE LET w == FuzzyWindow(lines, consuming, guess, max_start, 1, fuzzy)
             IN  IF w # None THEN w
                 ELSE GlobalScan(lines, consuming, 0, max_start)

_find_hunk_anchor(lines, hunk, guess_index, fuzzy) ==
    LET consuming == Consuming(hunk.lines)
        min_need  == _min_consuming_length(consuming)
        max_start == Max(0, Len(lines) - min_need)
        guess     == Max(0, Min(max_start, guess_index))
    IN  IF consuming = <<>>
        THEN Some(Max(0, Min(Len(lines), guess_index)))
        ELSE IF _hunk_matches_from(lines, consuming, guess)
        THEN Some(guess)
        ELSE LET w == FuzzyWindow(lines, consuming, guess, max_start, 1, fuzzy)
             IN  IF w # None THEN w
                 ELSE GlobalScan(lines, consuming, 0, max_start)

\* the guess without the bias of the hunks before
GuessIndexUnbiased(lines, hunk, bias) ==
    Max(0, Min(Len(lines), hunk.old_start - 1))

GuessIndex(lines, hunk, bias) ==
    Max(0, Min(Len(lines), (hunk.old_start - 1) + bias))

\* ------------------------------------------------------------ summarize_patch

RECURSIVE CountKind(_, _, _)
CountKind(lines, kind, i) ==
    IF i > Len(lines) THEN 0
    ELSE (IF lines[i].kind = kind THEN 1 ELSE 0) + CountKind(lines, kind, i + 1)

RECURSIVE CountInHunks(_, _, _)
CountInHunks(hunks, kind, h) ==
    IF h > Len(hunks) THEN 0
    ELSE CountKind(hunks[h].lines, kind, 1) + CountInHunks(hunks, kind, h + 1)

\* (additions, deletions, hunk_count)
summarize_patch(fp) ==
    <<CountInHunks(fp.hunks, "+", 1), CountInHunks(fp.hunks, "-", 1), Len(fp.hunks)>>

\* ----------------------------------------------------------- apply, by steps

\* del seq[cur]
DelAt(seq, cur) ==
    [k \in 1..(Len(seq) - 1) |-> IF k <= cur THEN seq[k] ELSE seq[k + 1]]

\* out[cur] = x where a line is, instead of an insertion
OverwriteAt(seq, cur, x) ==
    IF cur < Len(seq) THEN [seq EXCEPT ![cur + 1] = x] ELSE Append(seq, x)

\* seq.insert(cur, x)
InsertAt(seq, cur, x) ==
    [k \in 1..(Len(seq) + 1) |->
        IF k <= cur THEN seq[k] ELSE IF k = cur + 1 THEN x ELSE seq[k - 1]]

RECURSIVE InsertSorted(_, _)
InsertSorted(sortedSeq, x) ==
    IF sortedSeq = <<>> THEN <<x>>
    ELSE IF x < Head(sortedSeq) THEN <<x>> \o sortedSeq
    ELSE <<Head(sortedSeq)>> \o InsertSorted(Tail(sortedSeq), x)

RECURSIVE SortFrom(_, _)
SortFrom(seq, i) ==
    IF i > Len(seq) THEN <<>> ELSE InsertSorted(SortFrom(seq, i + 1), seq[i])

\* the list as recorded, the sort left out
unsorted(seq) == seq

\* sorted(removed_original_indices)
sorted(seq) == SortFrom(seq, 1)

\* a failure that hands over the buffer as it is
RaisedWithPartialResult(out, added, removed) ==
    Some([text |-> out, added_lines |-> added, removed_lines_original |-> removed])

\* what the caller gets when apply raises PatchApplyError
Raised(out, added, removed) == None

\* what the caller gets when apply returns
Returned(out, added, removed) ==
    Some(ApplyResult(JoinLines(out), added, sorted(removed)))

\* a verify pass for which an empty-text context entry needs a blank line
VerifyLineNeedingBlank(out, hl, cur) ==
    IF hl.kind = "+" THEN Some(cur)
    ELSE IF cur >= Len(out) \/ out[cur + 1] # hl.text THEN None
    ELSE IF hl.kind = " " /\ hl.text = "" THEN Some(SkipBlanks(out, cur))
    ELSE Some(cur + 1)

\* the verify pass on one hunk line: the cursor after it, or None on a mismatch
VerifyLine(out, hl, cur) ==
    IF hl.kind = " "
    THEN IF hl.text = ""
         THEN Some(SkipBlanks(out, cur))
         ELSE IF cur >= Len(out) \/ out[cur + 1] # hl.text THEN None ELSE Some(cur + 1)
    ELSE IF hl.kind = "-"
    THEN IF cur >= Len(out) \/ out[cur + 1] # hl.text THEN None ELSE Some(cur + 1)
    ELSE Some(cur)

\* the apply pass on a context line: the branch tests hl.kind == '', which no
\* context line (kind ' ') satisfies, so the cursor stays
ApplyContextCur(out, hl, cur) ==
    IF hl.kind = ""
    THEN IF hl.text = "" THEN SkipBlanks(out, cur) ELSE cur + 1
    ELSE cur

\* a deletion that advances the cursor as the verify pass does
ApplyDeletionCurAdvancing(cur) == cur + 1

\* the apply pass on a deletion: "do not advance cur"
ApplyDeletionCur(cur) == cur

\* the apply pass on an addition
ApplyAdditionCur(cur) == cur + 1

\* the range test 0 < cur in place of 0 <= cur
RecordRemovedAfterFirst(removed, origin_map, cur) ==
    IF 0 < cur /\ cur < Len(origin_map) /\ origin_map[cur + 1] # None
    THEN Append(removed, origin_map[cur + 1][1])
    ELSE removed

\* record original index if we have it
RecordRemoved(removed, origin_map, cur) ==
    IF 0 <= cur /\ cur < Len(origin_map) /\ origin_map[cur + 1] # None
    THEN Append(removed, origin_map[cur + 1][1])
    ELSE removed

\* an index recorded once only
RecordAddedOnce(added, cur) ==
    IF \E k \in 1..Len(added) : added[k] = cur THEN added ELSE Append(added, cur)

\* added_lines.append(cur)
RecordAdded(added, cur) == Append(added, cur)

\* ------------------------------------------------------------ lines of a diff

\* a line of a diff is a string; its characters are 1-based here

\* s[k]
CharAt(s, k) == SubSeq(s, k, k)

\* s[k:]
From(s, k) == SubSeq(s, k, Len(s))

\* s.startswith(prefix)
startswith(s, prefix) ==
    Len(s) >= Len(prefix) /\ SubSeq(s, 1, Len(prefix)) = prefix

\* \s of a pattern, on one line
IsSpace(c) == c \in {" ", "\t"}

\* \d of a pattern
IsDigit(c) == c \in {"0", "1", "2", "3", "4", "5", "6", "7", "8", "9"}

\* the first position from k on which holds no white space
RECURSIVE SkipSpace(_, _)
SkipSpace(s, k) ==
    IF k <= Len(s) /\ IsSpace(CharAt(s, k)) THEN SkipSpace(s, k + 1) ELSE k

\* the first position from k on which holds no digit
RECURSIVE SkipDigits(_, _)
SkipDigits(s, k) ==
    IF k <= Len(s) /\ IsDigit(CharAt(s, k)) THEN SkipDigits(s, k + 1) ELSE k

\* p.rstrip()
RECURSIVE rstrip(_)
rstrip(p) ==
    IF Len(p) > 0 /\ IsSpace(CharAt(p, Len(p)))
    THEN rstrip(SubSeq(p, 1, Len(p) - 1))
    ELSE p

\* p.strip()
strip(p) == rstrip(From(p, SkipSpace(p, 1)))

\* the position of the first tab of p from k on, Len(p) + 1 when there is none
RECURSIVE FindTab(_, _)
FindTab(p, k) ==
    IF k > Len(p) \/ CharAt(p, k) = "\t" THEN k ELSE FindTab(p, k + 1)

\* int(digits)
RECURSIVE int(_)
int(digits) ==
    IF digits = "" THEN 0
    ELSE 10 * int(SubSeq(digits, 1, Len(digits) - 1))
         + (CHOOSE d \in 0..9 :
                CharAt("0123456789", d + 1) = CharAt(digits, Len(digits)))

\* str(n), of a natural number
RECURSIVE str(_)
str(n) ==
    IF n < 10 THEN CharAt("0123456789", n + 1)
    ELSE str(n \div 10) \o CharAt("0123456789", (n % 10) + 1)

\* ^MARK\s+(?!\d)(?P<path>.+)$ with a three character MARK: the path group,
\* or None.  \s+ takes the whole run of white space; when what follows is
\* the end of the line or a digit it gives one character back, which is
\* then the first one of the path.
HeaderPath(line, mark) ==
    IF ~startswith(line, mark) THEN None
    ELSE LET after == SkipSpace(line, 4)
         IN  IF after = 4 THEN None
             ELSE IF after <= Len(line) /\ ~IsDigit(CharAt(line, after))
                  THEN Some(From(line, after))
             ELSE IF after - 1 > 4 THEN Some(From(line, after - 1))
             ELSE None

RE_OLD_UNIFIED(line) == HeaderPath(line, "---")

RE_NEW_UNIFIED(line) == HeaderPath(line, "+++")

RE_OLD_CONTEXTISH(line) == HeaderPath(line, "***")

RE_NEW_CONTEXTISH(line) == HeaderPath(line, "---")

\* one range of a hunk header from position k, the sign already met at
\* k - 1:  \s*(\d+)(?:,(\d+))?  as <<start, len, next position>>, or None
HunkRange(line, k) ==
    LET d == SkipSpace(line, k)
        e == SkipDigits(line, d)
        f == SkipDigits(line, e + 1)
    IN  IF e = d THEN None
        ELSE IF e <= Len(line) /\ CharAt(line, e) = "," /\ f > e + 1
             THEN Some(<<Some(SubSeq(line, d, e - 1)), Some(SubSeq(line, e + 1, f - 1)), f>>)
             ELSE Some(<<Some(SubSeq(line, d, e - 1)), None, e>>)

\* RE_HUNK.match(line): the groups <<o_start, o_len, n_start, n_len>>, each
\* the digits it took or None, or None when the line does not match
RE_HUNK(line) ==
    IF ~startswith(line, "@@") THEN None
    ELSE
    LET \* (?:\s*-\s*(?P<o_start>\d+)(?:,(?P<o_len>\d+))?)?
        s1 == SkipSpace(line, 3)
        old == IF s1 <= Len(line) /\ CharAt(line, s1) = "-"
               THEN HunkRange(line, s1 + 1) ELSE None
        p1 == IF old = None THEN 3 ELSE old[1][3]
        \* (?:\s+\+\s*(?P<n_start>\d+)(?:,(?P<n_len>\d+))?)?
        s2 == SkipSpace(line, p1)
        new == IF s2 > p1 /\ s2 <= Len(line) /\ CharAt(line, s2) = "+"
               THEN HunkRange(line, s2 + 1) ELSE None
        p2 == IF new = None THEN p1 ELSE new[1][3]
        \* (?:\s*@@.*)?$
        s3 == SkipSpace(line, p2)
    IN  IF p2 > Len(line) \/ startswith(From(line, s3), "@@")
        THEN Some(<<IF old = None THEN None ELSE old[1][1],
                    IF old = None THEN None ELSE old[1][2],
                    IF new = None THEN None ELSE new[1][1],
                    IF new = None THEN None ELSE new[1][2]>>)
        ELSE None

\* int(m.group(name) or default)
GroupOr(group, default) == int(IF group = None THEN default ELSE group[1])

\* lines skipped as noise when they start with one of these
_SKIP_PREFIXES ==
    <<"diff ", "index ", "new file mode", "deleted file mode",
      "similarity index", "rename from", "rename to", "GIT binary patch",
      "Binary files ">>

\* any(line.startswith(pfx) for pfx in self._SKIP_PREFIXES)
IsNoise(line) ==
    \E k \in 1..Len(_SKIP_PREFIXES) : startswith(line, _SKIP_PREFIXES[k])

\* the path of a header line with its timestamp left in
CleanPathKeepingTimestamp(path) ==
    LET p1 == rstrip(path)
    IN  IF p1 = "/dev/null" THEN p1
        ELSE IF startswith(p1, "a/") \/ startswith(p1, "b/") THEN strip(From(p1, 3))
        ELSE strip(p1)

\* _clean_path: the path of a header line, made comparable
_clean_path(path) ==
    LET p0 == rstrip(path)
        tab == FindTab(p0, 1)
        p1 == IF tab <= Len(p0) THEN rstrip(SubSeq(p0, 1, tab - 1)) ELSE p0
    IN  IF p1 = "/dev/null" THEN p1
        ELSE IF startswith(p1, "a/") \/ startswith(p1, "b/") THEN strip(From(p1, 3))
        ELSE strip(p1)

\* the lines of a hunk body end at the next hunk, the next file, or a diff line
EndsBody(l) ==
    \/ startswith(l, "@@")
    \/ RE_OLD_UNIFIED(l) # None
    \/ RE_OLD_CONTEXTISH(l) # None
    \/ startswith(l, "diff ")

NoNewlineMarker == "\\ No newline at end of file"

VARIABLES
    original_text,             \* apply's argument original_text
    patch,                     \* apply's argument patch
    fuzzy_context,             \* self.fuzzy_context
    pc,                        \* where apply is
    hi,                        \* the hunk of patch.hunks the for loop is at (1-based)
    li,                        \* the line of hunk.lines the inner loop is at (1-based)
    out, origin_map, line_bias, added_lines, removed_original_indices,
    guess_index, anchor_index, cur,
    result,                    \* what the caller received: None, or Some(ApplyResult)
    diff_text,                 \* parse's argument text
    diff_lines,                \* parse's lines
    parse_pc,                  \* where parse is
    scan_i,                    \* parse's i: the line of the diff the scan is at (0-based)
    patches,                   \* the FilePatch list under construction
    cur_file,                  \* None, or Some(k): the FilePatch patches[k]
    error,                     \* None, or Some(message of the PatchParseError)
    parsed,                    \* what parse returned: None, or Some(patches)
    stage,                     \* what the caller of parse and apply is at
    first                      \* None, or Some(how the caller's first apply ended)

applier_vars == <<original_text, patch, fuzzy_context, pc, hi, li, out,
                  origin_map, line_bias, added_lines, removed_original_indices,
                  guess_index, anchor_index, cur, result>>

parser_vars == <<diff_text, diff_lines, parse_pc, scan_i, patches, cur_file, error, parsed>>

caller_vars == <<stage, first>>

vars == <<applier_vars, parser_vars, caller_vars>>

inputs == <<original_text, patch, fuzzy_context>>

orig_lines == splitlines(original_text)

\* ---- the inputs that are drawn

SeqsUpTo(S, n) == UNION {[1..k -> S] : k \in 0..n}

\* no two line contents without a line break between them
Texts ==
    {t \in SeqsUpTo(Words \cup {NL}, MaxTextLen) :
        \A k \in 1..(Len(t) - 1) : t[k] = NL \/ t[k + 1] = NL}

\* the lines of a patch, cut into hunks at the given places
CutHunks(lines, cuts, starts) ==
    [h \in 1..Len(starts) |->
        LET from == IF h = 1 THEN 0 ELSE cuts[h - 1]
            to   == IF h = Len(starts) THEN Len(lines) ELSE cuts[h]
            body == SubSeq(lines, from + 1, to)
        IN  Hunk(starts[h], Len(Consuming(body)), starts[h],
                 Len(body) - CountKind(body, "-", 1), body)]

\* where n hunks can be cut out of a body of len lines: n - 1 ascending places
Cuts(n, len) ==
    {d \in [1..(n - 1) -> 0..len] : \A k \in 1..(n - 2) : d[k] <= d[k + 1]}

PatchesOf(n) ==
    UNION {
        {FilePatch("x", "x", CutHunks(lines, cuts, starts)) :
            cuts \in Cuts(n, Len(lines)), starts \in [1..n -> 0..MaxOldStart]}
        : lines \in SeqsUpTo(HunkLines, MaxDiffLines - n)}

\* the FilePatches of at most max_hunks hunks
Patches(max_hunks) == UNION {PatchesOf(n) : n \in 0..max_hunks}

\* DiffApplier(fuzzy_context): the arguments drawn
FuzzyArgs == {0, 1}

\* def __init__(self, fuzzy_context: int = 5)
DefaultFuzzyContext == 5

\* "Replace middle with fuzzy drift": @@ -1,3 +1,3 @@ on h1 h2 a b c t1
DriftText == <<"h1", NL, "h2", NL, "a", NL, "b", NL, "c", NL, "t1", NL>>

DriftPatch ==
    FilePatch("x", "x",
        <<Hunk(1, 3, 1, 3, <<HunkLine(" ", "a"), HunkLine("-", "b"),
                             HunkLine("+", "B"), HunkLine(" ", "c")>>)>>)

\* "Blank-run tolerance": @@ -1,3 +1,4 @@ on x, three blank lines, y
BlankRunText == <<"x", NL, NL, NL, NL, "y">>

BlankRunPatch ==
    FilePatch("x", "x",
        <<Hunk(1, 3, 1, 4, <<HunkLine(" ", "x"), HunkLine(" ", ""),
                             HunkLine("+", "Z"), HunkLine(" ", "y")>>)>>)

Scenarios == {<<DriftText, DriftPatch>>, <<BlankRunText, BlankRunPatch>>}

\* parse is not running
ParserIdle ==
    /\ diff_text = <<>>
    /\ diff_lines = <<>>
    /\ parse_pc = "idle"
    /\ scan_i = 0
    /\ patches = <<>>
    /\ cur_file = None
    /\ error = None
    /\ parsed = None

Init ==
    /\ \/ /\ patch \in Patches(MaxDiffLines)
          /\ original_text \in Texts
          /\ \E arg \in FuzzyArgs : fuzzy_context = Max(0, arg)
       \/ /\ \E sc \in Scenarios : original_text = sc[1] /\ patch = sc[2]
          /\ fuzzy_context = Max(0, DefaultFuzzyContext)
    /\ pc = "hunk"
    /\ hi = 1
    /\ li = 1
    /\ out = orig_lines
    /\ origin_map = [k \in 1..Len(orig_lines) |-> Some(k - 1)]
    /\ line_bias = 0
    /\ added_lines = <<>>
    /\ removed_original_indices = <<>>
    /\ guess_index = 0
    /\ anchor_index = 0
    /\ cur = 0
    /\ result = None
    /\ ParserIdle
    /\ stage = "apply"
    /\ first = None

hunk == patch.hunks[hi]

hl == hunk.lines[li]

\* for hunk in patch.hunks: guess, anchor, or raise
Anchor ==
    /\ pc = "hunk"
    /\ hi <= Len(patch.hunks)
    /\ LET g == GuessIndex(out, hunk, line_bias)
           a == _find_hunk_anchor(out, hunk, g, fuzzy_context)
       IN  /\ guess_index' = g
           /\ IF a = None
              THEN /\ pc' = "failed"
                   /\ result' = Raised(out, added_lines, removed_original_indices)
                   /\ UNCHANGED <<anchor_index, cur, li>>
              ELSE /\ pc' = "verify"
                   /\ anchor_index' = a[1]
                   /\ cur' = a[1]
                   /\ li' = 1
                   /\ UNCHANGED result
    /\ UNCHANGED <<caller_vars, parser_vars, inputs, hi, out, origin_map, line_bias, added_lines,
                   removed_original_indices>>

\* a verify pass that removes the line of a deletion entry as soon as it has
\* checked it
VerifyAndDelete ==
    /\ pc = "verify"
    /\ li <= Len(hunk.lines)
    /\ LET c == VerifyLine(out, hl, cur)
       IN  IF c = None
           THEN /\ pc' = "failed"
                /\ result' = Raised(out, added_lines, removed_original_indices)
                /\ UNCHANGED <<cur, li, out, origin_map>>
           ELSE /\ cur' = c[1]
                /\ li' = li + 1
                /\ out' = IF hl.kind = "-" THEN DelAt(out, cur) ELSE out
                /\ origin_map' = IF hl.kind = "-" THEN DelAt(origin_map, cur) ELSE origin_map
                /\ UNCHANGED <<pc, result>>
    /\ UNCHANGED <<caller_vars, parser_vars, inputs, hi, line_bias, added_lines,
                   removed_original_indices, guess_index, anchor_index>>

\* VERIFY (non-mutating), one hunk line
Verify ==
    /\ pc = "verify"
    /\ li <= Len(hunk.lines)
    /\ LET c == VerifyLine(out, hl, cur)
       IN  IF c = None
           THEN /\ pc' = "failed"
                /\ result' = Raised(out, added_lines, removed_original_indices)
                /\ UNCHANGED <<cur, li>>
           ELSE /\ cur' = c[1]
                /\ li' = li + 1
                /\ UNCHANGED <<pc, result>>
    /\ UNCHANGED <<caller_vars, parser_vars, inputs, hi, out, origin_map, line_bias, added_lines,
                   removed_original_indices, guess_index, anchor_index>>

\* the verify loop is over: cur = anchor_index, and the apply loop starts
VerifyDone ==
    /\ pc = "verify"
    /\ li > Len(hunk.lines)
    /\ pc' = "apply"
    /\ cur' = anchor_index
    /\ li' = 1
    /\ UNCHANGED <<caller_vars, parser_vars, inputs, hi, out, origin_map, line_bias, added_lines,
                   removed_original_indices, guess_index, anchor_index, result>>

\* an apply pass whose deletion leaves the origin map as it is
ApplyKeepingMap ==
    /\ pc = "apply"
    /\ li <= Len(hunk.lines)
    /\ IF hl.kind = "-"
       THEN IF cur >= Len(out)
            THEN \* del out[cur] raises IndexError
                 /\ pc' = "crashed"
                 /\ removed_original_indices' =
                        RecordRemoved(removed_original_indices, origin_map, cur)
                 /\ UNCHANGED <<li, out, origin_map, line_bias, added_lines, cur>>
            ELSE /\ removed_original_indices' =
                        RecordRemoved(removed_original_indices, origin_map, cur)
                 /\ out' = DelAt(out, cur)
                 /\ origin_map' = origin_map
                 /\ line_bias' = line_bias - 1
                 /\ cur' = ApplyDeletionCur(cur)
                 /\ li' = li + 1
                 /\ UNCHANGED <<pc, added_lines>>
       ELSE IF hl.kind = "+"
       THEN /\ out' = InsertAt(out, cur, hl.text)
            /\ origin_map' = InsertAt(origin_map, cur, None)
            /\ added_lines' = RecordAdded(added_lines, cur)
            /\ cur' = ApplyAdditionCur(cur)
            /\ line_bias' = line_bias + 1
            /\ li' = li + 1
            /\ UNCHANGED <<pc, removed_original_indices>>
       ELSE /\ cur' = ApplyContextCur(out, hl, cur)
            /\ li' = li + 1
            /\ UNCHANGED <<pc, out, origin_map, line_bias, added_lines,
                           removed_original_indices>>
    /\ UNCHANGED <<caller_vars, parser_vars, inputs, hi, guess_index, anchor_index, result>>

\* APPLY (mutating), one hunk line
Apply ==
    /\ pc = "apply"
    /\ li <= Len(hunk.lines)
    /\ IF hl.kind = "-"
       THEN IF cur >= Len(out)
            THEN \* del out[cur] raises IndexError
                 /\ pc' = "crashed"
                 /\ removed_original_indices' =
                        RecordRemoved(removed_original_indices, origin_map, cur)
                 /\ UNCHANGED <<li, out, origin_map, line_bias, added_lines, cur>>
            ELSE /\ removed_original_indices' =
                        RecordRemoved(removed_original_indices, origin_map, cur)
                 /\ out' = DelAt(out, cur)
                 /\ origin_map' = DelAt(origin_map, cur)
                 /\ line_bias' = line_bias - 1
                 /\ cur' = ApplyDeletionCur(cur)
                 /\ li' = li + 1
                 /\ UNCHANGED <<pc, added_lines>>
       ELSE IF hl.kind = "+"
       THEN /\ out' = InsertAt(out, cur, hl.text)
            /\ origin_map' = InsertAt(origin_map, cur, None)
            /\ added_lines' = RecordAdded(added_lines, cur)
            /\ cur' = ApplyAdditionCur(cur)
            /\ line_bias' = line_bias + 1
            /\ li' = li + 1
            /\ UNCHANGED <<pc, removed_original_indices>>
       ELSE /\ cur' = ApplyContextCur(out, hl, cur)
            /\ li' = li + 1
            /\ UNCHANGED <<pc, out, origin_map, line_bias, added_lines,
                           removed_original_indices>>
    /\ UNCHANGED <<caller_vars, parser_vars, inputs, hi, guess_index, anchor_index, result>>

\* the apply loop is over: the for loop goes to the next hunk
NextHunk ==
    /\ pc = "apply"
    /\ li > Len(hunk.lines)
    /\ pc' = "hunk"
    /\ hi' = hi + 1
    /\ UNCHANGED <<caller_vars, parser_vars, inputs, li, out, origin_map, line_bias, added_lines,
                   removed_original_indices, guess_index, anchor_index, cur, result>>

\* return ApplyResult(...)
Return ==
    /\ pc = "hunk"
    /\ hi > Len(patch.hunks)
    /\ pc' = "done"
    /\ result' = Returned(out, added_lines, removed_original_indices)
    /\ UNCHANGED <<caller_vars, parser_vars, inputs, hi, li, out, origin_map, line_bias, added_lines,
                   removed_original_indices, guess_index, anchor_index, cur>>

Next == Anchor \/ Verify \/ VerifyDone \/ Apply \/ NextHunk \/ Return

Spec == Init /\ [][Next]_vars

\* ----------------------------------------------------------- parse, by steps

\* line = lines[scan_i]
line == diff_lines[scan_i + 1]

\* raise PatchParseError(message)
Raise(message) ==
    /\ parse_pc' = "error"
    /\ error' = Some(message)

\* cur_file = FilePatch(old_path=..., new_path=..., hunks=[]); patches.insert(0, cur_file)
NewFileFirst(old_path, new_path) ==
    /\ patches' = <<FilePatch(_clean_path(old_path), _clean_path(new_path), <<>>)>> \o patches
    /\ cur_file' = Some(1)

\* cur_file = FilePatch(old_path=..., new_path=..., hunks=[]); patches.append(cur_file)
NewFile(old_path, new_path) ==
    /\ patches' = Append(patches, FilePatch(_clean_path(old_path), _clean_path(new_path), <<>>))
    /\ cur_file' = Some(Len(patches) + 1)

\* the while loop of a unified header pair from j on: the index of the
\* +++ line, or None
RECURSIVE LookAhead(_, _, _)
LookAhead(lines, j, lookahead_limit) ==
    IF j >= lookahead_limit THEN None
    ELSE IF IsNoise(lines[j + 1]) THEN LookAhead(lines, j + 1, lookahead_limit)
    ELSE IF RE_NEW_UNIFIED(lines[j + 1]) # None THEN Some(j)
    ELSE None

\* a lookahead to the end of the diff
LookAheadToEnd(lines, at) == Len(lines)

\* how far the lookahead goes: lines scan_i + 1 .. scan_i + 3
LookAheadLimit(lines, at) == Min(Len(lines), at + 4)

\* cur_file.hunks = [cur_hunk]
ReplaceHunks(files, k, h) ==
    [files EXCEPT ![k].hunks = <<h>>]

\* cur_file.hunks.append(cur_hunk)
AppendHunk(files, k, h) ==
    [files EXCEPT ![k].hunks = Append(@, h)]

\* cur_hunk.lines.append(HunkLine(kind, text)), cur_hunk the last hunk of cur_file
AppendHunkLine(files, k, kind, text) ==
    [files EXCEPT ![k].hunks[Len(files[k].hunks)].lines = Append(@, HunkLine(kind, text))]

Scanning == parse_pc = "scan" /\ scan_i < Len(diff_lines)

\* Skip obvious noise, and leave the current file
SkipNoiseAndFile ==
    /\ Scanning
    /\ IsNoise(line)
    /\ scan_i' = scan_i + 1
    /\ cur_file' = None
    /\ UNCHANGED <<caller_vars, applier_vars, diff_text, diff_lines, parse_pc, patches, error, parsed>>

\* Skip obvious noise
SkipNoise ==
    /\ Scanning
    /\ IsNoise(line)
    /\ scan_i' = scan_i + 1
    /\ UNCHANGED <<caller_vars, applier_vars, diff_text, diff_lines, parse_pc, patches, cur_file, error, parsed>>

\* *** old, then --- new on the next line
ContextHeader ==
    /\ Scanning
    /\ ~IsNoise(line)
    /\ RE_OLD_CONTEXTISH(line) # None
    /\ IF scan_i + 1 >= Len(diff_lines) \/ RE_NEW_CONTEXTISH(diff_lines[scan_i + 2]) = None
       THEN /\ Raise("Expected --- <new> after *** <old>")
            /\ scan_i' = scan_i + 1
            /\ UNCHANGED <<patches, cur_file>>
       ELSE /\ NewFile(RE_OLD_CONTEXTISH(line)[1], RE_NEW_CONTEXTISH(diff_lines[scan_i + 2])[1])
            /\ scan_i' = scan_i + 2
            /\ UNCHANGED <<parse_pc, error>>
    /\ UNCHANGED <<caller_vars, applier_vars, diff_text, diff_lines, parsed>>

\* --- old, then +++ new within the lookahead
UnifiedHeader ==
    /\ Scanning
    /\ ~IsNoise(line)
    /\ RE_OLD_CONTEXTISH(line) = None
    /\ RE_OLD_UNIFIED(line) # None
    /\ LET j == LookAhead(diff_lines, scan_i + 1, LookAheadLimit(diff_lines, scan_i))
       IN  IF j = None
           THEN /\ Raise("Expected +++ <new> after --- <old>")
                /\ UNCHANGED <<scan_i, patches, cur_file>>
           ELSE /\ NewFile(RE_OLD_UNIFIED(line)[1], RE_NEW_UNIFIED(diff_lines[j[1] + 1])[1])
                /\ scan_i' = j[1] + 1
                /\ UNCHANGED <<parse_pc, error>>
    /\ UNCHANGED <<caller_vars, applier_vars, diff_text, diff_lines, parsed>>

\* a start of 0 when a range gives none
DefaultStartZero == "0"

\* the start of a hunk header when a range gives none
DefaultStart == "1"

\* the length of a hunk header when a range gives none
DefaultLen == "0"

\* a hunk header before any file header, passed over
OrphanHunkSkipped ==
    /\ scan_i' = scan_i + 1
    /\ UNCHANGED <<parse_pc, error, patches>>

\* a hunk header before any file header
OrphanHunk ==
    /\ Raise("Hunk found before file headers")
    /\ UNCHANGED <<scan_i, patches>>

\* @@ ... : a hunk of the current file
HunkHeader ==
    /\ Scanning
    /\ ~IsNoise(line)
    /\ RE_OLD_CONTEXTISH(line) = None
    /\ RE_OLD_UNIFIED(line) = None
    /\ startswith(line, "@@")
    /\ LET m == RE_HUNK(line)
       IN  IF cur_file = None
           THEN OrphanHunk
           ELSE IF m = None
           THEN /\ Raise("Bad hunk header")
                /\ UNCHANGED <<scan_i, patches>>
           ELSE /\ patches' = AppendHunk(patches, cur_file[1],
                                  Hunk(GroupOr(m[1][1], DefaultStart), GroupOr(m[1][2], DefaultLen),
                                       GroupOr(m[1][3], DefaultStart), GroupOr(m[1][4], DefaultLen),
                                       <<>>))
                /\ scan_i' = scan_i + 1
                /\ parse_pc' = "body"
                /\ UNCHANGED error
    /\ UNCHANGED <<caller_vars, applier_vars, diff_text, diff_lines, cur_file, parsed>>

\* every body line taken for a context line
ContextKind(l) == " "

\* the kind and text of a hunk body line that starts with one of ' ', '+', '-'
BodyKind(l) == CharAt(l, 1)

BodyText(l) == From(l, 2)

\* one turn of the hunk body loop
HunkBody ==
    /\ parse_pc = "body"
    /\ IF scan_i >= Len(diff_lines) \/ EndsBody(line)
       THEN /\ parse_pc' = "scan"
            /\ UNCHANGED <<scan_i, patches, error>>
       ELSE IF line = ""
       THEN /\ patches' = AppendHunkLine(patches, cur_file[1], " ", "")
            /\ scan_i' = scan_i + 1
            /\ UNCHANGED <<parse_pc, error>>
       ELSE IF CharAt(line, 1) \in {" ", "+", "-"}
       THEN /\ patches' = AppendHunkLine(patches, cur_file[1], BodyKind(line), BodyText(line))
            /\ scan_i' = scan_i + 1
            /\ UNCHANGED <<parse_pc, error>>
       ELSE IF startswith(line, NoNewlineMarker)
       THEN /\ scan_i' = scan_i + 1
            /\ UNCHANGED <<parse_pc, patches, error>>
       ELSE /\ Raise("Unexpected hunk content line")
            /\ UNCHANGED <<scan_i, patches>>
    /\ UNCHANGED <<caller_vars, applier_vars, diff_text, diff_lines, cur_file, parsed>>

\* Nothing matched, raise
RaiseUnmatched ==
    /\ Scanning
    /\ ~IsNoise(line)
    /\ RE_OLD_CONTEXTISH(line) = None
    /\ RE_OLD_UNIFIED(line) = None
    /\ ~startswith(line, "@@")
    /\ Raise("Unexpected line")
    /\ UNCHANGED <<caller_vars, applier_vars, diff_text, diff_lines, scan_i, patches, cur_file, parsed>>

\* Nothing matched, advance
Advance ==
    /\ Scanning
    /\ ~IsNoise(line)
    /\ RE_OLD_CONTEXTISH(line) = None
    /\ RE_OLD_UNIFIED(line) = None
    /\ ~startswith(line, "@@")
    /\ scan_i' = scan_i + 1
    /\ UNCHANGED <<caller_vars, applier_vars, diff_text, diff_lines, parse_pc, patches, cur_file, error, parsed>>

\* not one file has a hunk
NoHunks(files) == \A k \in 1..Len(files) : files[k].hunks = <<>>

\* not patches
NoPatches(files) == files = <<>>

\* the end of the scan: raise on an empty list, else return patches
Finish ==
    /\ parse_pc = "scan"
    /\ scan_i >= Len(diff_lines)
    /\ IF NoPatches(patches)
       THEN /\ Raise("No file patches found")
            /\ UNCHANGED parsed
       ELSE /\ parse_pc' = "done"
            /\ parsed' = Some(patches)
            /\ UNCHANGED error
    /\ UNCHANGED <<caller_vars, applier_vars, diff_text, diff_lines, scan_i, patches, cur_file>>

ParseNext ==
    SkipNoise \/ ContextHeader \/ UnifiedHeader \/ HunkHeader \/ HunkBody \/ Advance \/ Finish

\* ---- the diffs that are drawn

\* the lines a drawn diff is made of: noise, file headers well and badly
\* formed, hunk headers well and badly formed, hunk body lines
DiffVocabulary ==
    {"diff --git a/x b/x", "index 1..2",
     "--- a/x", "+++ b/x", "*** y", "---", "+++", "*** 1,5 ****",
     "@@ -1,2 +3,4 @@ f", "@@ -2 +2 @@", "@@", "@@ bad", "@@ -2 @@",
     " a", "+a", "-a", "", NoNewlineMarker}

\* how a drawn diff starts: with nothing, with a file, with a file and a
\* hunk, with an old header and one noise line
DiffStarts ==
    {<<>>,
     <<"--- a/x", "+++ b/x">>,
     <<"--- a/x", "+++ b/x", "@@ -1,2 +3,4 @@ f">>,
     <<"--- a/x", "index 1..2">>}

\* the text of these lines, each one ended by a line break
EndLines(lines) == IF lines = <<>> THEN <<>> ELSE JoinLines(lines) \o <<NL>>

\* the diffs drawn: a start, then at most max_lines lines of the vocabulary
DrawnDiffs(max_lines) ==
    {EndLines(start \o rest) :
        start \in DiffStarts, rest \in SeqsUpTo(DiffVocabulary, max_lines)}

\* "Two files in one diff"
TwoFilesDiff ==
    EndLines(<<"--- a/x", "+++ b/x", "@@ -1 +1 @@", "-a", "+b", "@@ -3 +3 @@", "+c",
               "--- a/y", "+++ b/y", "@@ -2,1 +2,0 @@", "-d">>)

\* "Preamble noise"
PreambleDiff ==
    EndLines(<<"diff --git a/x b/x", "index 111..222 100644", "--- a/x", "+++ b/x",
               "@@ -1 +1 @@", "-a", "+b">>)

\* the same diff without its preamble
PlainDiff == EndLines(<<"--- a/x", "+++ b/x", "@@ -1 +1 @@", "-a", "+b">>)

\* the same diff after a preamble of every kind of noise
NoisyDiff ==
    EndLines(<<"diff --git a/x b/x", "index 111..222 100644", "new file mode 100644",
               "deleted file mode 100644", "similarity index 100%", "rename from x",
               "rename to x", "GIT binary patch", "Binary files a/x and b/x differ",
               "--- a/x", "+++ b/x", "@@ -1 +1 @@", "-a", "+b">>)

DiffScenarios == {TwoFilesDiff, PreambleDiff, PlainDiff, NoisyDiff}

\* what stands after the marker of a drawn file header: paths with and without
\* prefix, with a timestamp after a tab, with white space, and /dev/null
HeaderPathTexts ==
    {"a/x", "b/x", "x", "/dev/null", "a/x\t2020-01-01 10:00", "b/x \t1\t2",
     "/dev/null\t1 ", "x  ", "a/ x", "a/b/x", "a//dev/null", "\tx"}

\* a file header pair of either form over these paths, and nothing else
PathDiffs ==
    {EndLines(<<"--- " \o p, "+++ " \o q>>) : p, q \in HeaderPathTexts}
    \cup {EndLines(<<"*** " \o p, "--- " \o q>>) : p, q \in HeaderPathTexts}

\* apply is not running
ApplierIdle ==
    /\ original_text = <<>>
    /\ patch = FilePatch("", "", <<>>)
    /\ fuzzy_context = 0
    /\ pc = "idle"
    /\ hi = 1
    /\ li = 1
    /\ out = <<>>
    /\ origin_map = <<>>
    /\ line_bias = 0
    /\ added_lines = <<>>
    /\ removed_original_indices = <<>>
    /\ guess_index = 0
    /\ anchor_index = 0
    /\ cur = 0
    /\ result = None

\* parse(text) is called
ParserStarts ==
    /\ diff_lines = splitlines(diff_text)
    /\ parse_pc = "scan"
    /\ scan_i = 0
    /\ patches = <<>>
    /\ cur_file = None
    /\ error = None
    /\ parsed = None

InitParse ==
    /\ diff_text \in DrawnDiffs(MaxParseLines) \cup DiffScenarios \cup PathDiffs
    /\ ParserStarts
    /\ ApplierIdle
    /\ stage = "parse"
    /\ first = None

SpecParse == InitParse /\ [][ParseNext]_vars

\* ------------------------------------------------------------ format_file_diff

\* f"{ln.kind}{ln.text}" for the lines of a hunk
HunkLinesText(hunk_lines) ==
    [k \in 1..Len(hunk_lines) |-> hunk_lines[k].kind \o hunk_lines[k].text]

\* a hunk header without its ranges
BareHeaderLine(h) == "@@"

\* f"@@ -{h.old_start},{h.old_len} +{h.new_start},{h.new_len} @@"
HunkHeaderLine(h) ==
    "@@ -" \o str(h.old_start) \o "," \o str(h.old_len)
        \o " +" \o str(h.new_start) \o "," \o str(h.new_len) \o " @@"

RECURSIVE HunksText(_, _)
HunksText(hunks, k) ==
    IF k > Len(hunks) THEN <<>>
    ELSE <<HunkHeaderLine(hunks[k])>> \o HunkLinesText(hunks[k].lines)
             \o HunksText(hunks, k + 1)

\* path or "/dev/null"
PathOr(path) == IF path = "" THEN "/dev/null" ELSE path

format_file_diff(fp) ==
    JoinLines(<<"--- a/" \o PathOr(fp.old_path), "+++ b/" \o PathOr(fp.new_path)>>
                  \o HunksText(fp.hunks, 1))

\* ------------------------------ parse, apply, format_file_diff, parse, apply

\* apply(original_text, fp) is called
StartApply(fp) ==
    /\ patch' = fp
    /\ pc' = "hunk"
    /\ hi' = 1
    /\ li' = 1
    /\ out' = orig_lines
    /\ origin_map' = [k \in 1..Len(orig_lines) |-> Some(k - 1)]
    /\ line_bias' = 0
    /\ added_lines' = <<>>
    /\ removed_original_indices' = <<>>
    /\ guess_index' = 0
    /\ anchor_index' = 0
    /\ cur' = 0
    /\ result' = None
    /\ UNCHANGED <<original_text, fuzzy_context>>

\* parse(text) is called
StartParse(text) ==
    /\ diff_text' = text
    /\ diff_lines' = splitlines(text)
    /\ parse_pc' = "scan"
    /\ scan_i' = 0
    /\ patches' = <<>>
    /\ cur_file' = None
    /\ error' = None
    /\ parsed' = None

Ended == pc \in {"done", "failed", "crashed"}

\* apply(original_text, fp) for a fp of the list parse returned
ApplyFirst ==
    /\ stage = "parse"
    /\ parse_pc = "done"
    /\ \E k \in 1..Len(parsed[1]) : StartApply(parsed[1][k])
    /\ stage' = "apply"
    /\ UNCHANGED <<parser_vars, first>>

\* parse(format_file_diff(fp))
Reparse ==
    /\ stage = "apply"
    /\ Ended
    /\ first' = Some([patch |-> patch, result |-> result])
    /\ StartParse(format_file_diff(patch))
    /\ stage' = "reparse"
    /\ UNCHANGED applier_vars

\* apply(original_text, fp2) for the fp2 parse returned
ApplySecond ==
    /\ stage = "reparse"
    /\ parse_pc = "done"
    /\ StartApply(parsed[1][1])
    /\ stage' = "reapply"
    /\ UNCHANGED <<parser_vars, first>>

\* the lines after the start of a diff that is formatted and parsed again
RoundTripVocabulary ==
    {" a", "+a", "-a", "", "---", "@@ -2 +2 @@", NoNewlineMarker}

RoundTripStart == <<"--- a/x", "+++ b/x", "@@ -1,2 +3,4 @@ f">>

\* a diff with a preamble, a malformed header and a context-like header pair
ContextDiff ==
    EndLines(<<"index 1..2", "+++", "*** y", "--- /dev/null", "@@", " a", "+b">>)

RoundTripDiffs ==
    {EndLines(RoundTripStart \o rest) :
        rest \in SeqsUpTo(RoundTripVocabulary, MaxParseLines)}
    \cup {TwoFilesDiff, ContextDiff}

InitRoundTrip ==
    /\ diff_text \in RoundTripDiffs
    /\ ParserStarts
    /\ original_text \in Texts
    /\ fuzzy_context = Max(0, DefaultFuzzyContext)
    /\ patch = FilePatch("", "", <<>>)
    /\ pc = "idle"
    /\ hi = 1
    /\ li = 1
    /\ out = <<>>
    /\ origin_map = <<>>
    /\ line_bias = 0
    /\ added_lines = <<>>
    /\ removed_original_indices = <<>>
    /\ guess_index = 0
    /\ anchor_index = 0
    /\ cur = 0
    /\ result = None
    /\ stage = "parse"
    /\ first = None

RoundTripNext ==
    \/ SkipNoise \/ ContextHeader \/ UnifiedHeader \/ HunkHeader \/ HunkBody
    \/ Advance \/ Finish
    \/ Anchor \/ Verify \/ VerifyDone \/ Apply \/ NextHunk \/ Return
    \/ ApplyFirst \/ Reparse \/ ApplySecond

SpecRoundTrip == InitRoundTrip /\ [][RoundTripNext]_vars

\* ------------------------------------------------- apply, on longer buffers

\* the anchoring runs: apply on a longer original, with a patch of one hunk,
\* or of that hunk after a hunk that inserts one line at the top (bias 1) or
\* after a hunk that deletes one line (bias -1)

AnchorTexts ==
    {t \in SeqsUpTo(Words \cup {NL}, MaxAnchorTextLen) :
        \A k \in 1..(Len(t) - 1) : t[k] = NL \/ t[k + 1] = NL}

AnchorHunks ==
    {CutHunks(lines, <<>>, <<start>>) :
        lines \in SeqsUpTo(HunkLines, MaxAnchorHunkLines),
        start \in 0..MaxAnchorOldStart}

\* @@ -1,0 +1,1 @@ with one addition
InsertAtTop == Hunk(1, 0, 1, 1, <<HunkLine("+", "a")>>)

\* @@ -1,1 +1,0 @@ with one deletion
DeleteOne == Hunk(1, 1, 1, 0, <<HunkLine("-", "a")>>)

AnchorPatches ==
    {FilePatch("x", "x", hunks) : hunks \in AnchorHunks}
    \cup {FilePatch("x", "x", <<before>> \o hunks) :
              before \in {InsertAtTop, DeleteOne}, hunks \in AnchorHunks}

\* DiffApplier(fuzzy_context): the arguments drawn in the anchoring runs
AnchorFuzzyArgs == {0, 1, 2}

InitAnchor ==
    /\ original_text \in AnchorTexts
    /\ patch \in AnchorPatches
    /\ \E arg \in AnchorFuzzyArgs : fuzzy_context = Max(0, arg)
    /\ pc = "hunk"
    /\ hi = 1
    /\ li = 1
    /\ out = orig_lines
    /\ origin_map = [k \in 1..Len(orig_lines) |-> Some(k - 1)]
    /\ line_bias = 0
    /\ added_lines = <<>>
    /\ removed_original_indices = <<>>
    /\ guess_index = 0
    /\ anchor_index = 0
    /\ cur = 0
    /\ result = None
    /\ ParserIdle
    /\ stage = "apply"
    /\ first = None

SpecAnchor == InitAnchor /\ [][Next]_vars

\* ------------------------------------------------------------------ claims

additions == summarize_patch(patch)[1]

deletions == summarize_patch(patch)[2]

Succeeded == pc = "done"

AtHunkLine(p, kind) == pc = p /\ li <= Len(hunk.lines) /\ hl.kind = kind

EmptyContext(l) == l.kind = " " /\ l.text = ""

Range(seq) == {seq[k] : k \in 1..Len(seq)}

\* C1: a line the apply pass is about to remove for a deletion entry has that
\* entry's text
C1_DeletionRemovesItsText ==
    AtHunkLine("apply", "-") => LineIs(out, cur, hl.text)

\* what C2 describes for one hunk anchored at p: the entries before entry k
\* that stay in the result, and the entries before k that consume
KeptBefore(lines, k) == Len(SelectSeq(SubSeq(lines, 1, k - 1), LAMBDA l : l.kind # "-"))

ConsumedBefore(lines, k) == Len(Consuming(SubSeq(lines, 1, k - 1)))

KeptTexts(lines) ==
    LET kept == SelectSeq(lines, LAMBDA l : l.kind # "-")
    IN  [k \in 1..Len(kept) |-> kept[k].text]

ExpectedLines(orig, lines, p) ==
    SubSeq(orig, 1, p) \o KeptTexts(lines)
        \o SubSeq(orig, p + Len(Consuming(lines)) + 1, Len(orig))

ExpectedRemoved(lines, p) ==
    LET ks == SelectSeq([k \in 1..Len(lines) |-> k], LAMBDA k : lines[k].kind = "-")
    IN  [j \in 1..Len(ks) |-> p + ConsumedBefore(lines, ks[j])]

ExpectedAdded(lines, p) ==
    LET ks == SelectSeq([k \in 1..Len(lines) |-> k], LAMBDA k : lines[k].kind = "+")
    IN  [j \in 1..Len(ks) |-> p + KeptBefore(lines, ks[j])]

\* C2: a single hunk without empty-text context, applied at anchor p, gives
\* original[0..p), then the context and addition texts, then original[p+n..);
\* removed holds p+j for the consuming positions j that are deletions, added
\* the result indices of the additions
C2_SingleHunkResult ==
    (/\ Succeeded
     /\ Len(patch.hunks) = 1
     /\ \A k \in 1..Len(patch.hunks[1].lines) : ~EmptyContext(patch.hunks[1].lines[k]))
    => LET lines == patch.hunks[1].lines
           p     == anchor_index
       IN  /\ result[1].text = JoinLines(ExpectedLines(orig_lines, lines, p))
           /\ result[1].removed_lines_original = ExpectedRemoved(lines, p)
           /\ result[1].added_lines = ExpectedAdded(lines, p)

\* C3: an addition that follows an empty-text context entry is inserted where
\* the blank run ends (the cursor is at the end of the buffer or on a non-blank
\* line); in the blank-run scenario Z ends up immediately before y and its
\* index is in added_lines
C3_AdditionAfterBlankRun ==
    /\ (AtHunkLine("apply", "+") /\ li > 1 /\ EmptyContext(hunk.lines[li - 1]))
       => SkipBlanks(out, cur) = cur
    /\ (Succeeded /\ original_text = BlankRunText /\ patch = BlankRunPatch)
       => \E k \in 1..(Len(out) - 1) :
              out[k] = "Z" /\ out[k + 1] = "y" /\ (k - 1) \in Range(result[1].added_lines)

\* C4: apply changes neither its patch nor its original text, and a failed
\* apply hands no ApplyResult to the caller
C4_AllOrNothing ==
    /\ [][original_text' = original_text /\ patch' = patch]_vars
    /\ [](pc \in {"failed", "crashed"} => result = None)

\* hunk 1 has changed the buffer and a later hunk failed
C4_Witness ==
    pc = "failed" /\ hi > 1 /\ out # orig_lines /\ added_lines # <<>>

\* C5: apply ends in a result or in PatchApplyError, and every deletion step
\* finds its cursor inside the buffer
C5_NoOtherError ==
    /\ pc # "crashed"
    /\ AtHunkLine("apply", "-") => (0 <= cur /\ cur < Len(out))

\* a deletion step on the last line of a buffer that earlier steps changed
C5_Witness ==
    AtHunkLine("apply", "-") /\ cur = Len(out) - 1 /\ out # orig_lines

\* C6, as claimed: the removed list is as long as the patch has deletion entries
C6_RemovedCountsDeletions ==
    Succeeded => Len(result[1].removed_lines_original) = deletions

Inserted(map) == Len(SelectSeq(map, LAMBDA o : o = None))

\* C6, amended: the removed list counts the deletion entries that removed a
\* line of the original, that is all deletion entries but those that removed a
\* line an earlier hunk inserted (the added lines no longer in the buffer);
\* for a single hunk it counts every deletion entry
C6_RemovedCountsOriginalDeletions ==
    Succeeded =>
        /\ Len(result[1].removed_lines_original)
               = deletions - (Len(added_lines) - Inserted(origin_map))
        /\ Len(patch.hunks) <= 1 => Len(result[1].removed_lines_original) = deletions

\* the second hunk deleted the line the first one inserted: nothing is recorded
C6_Witness ==
    /\ Succeeded
    /\ Len(patch.hunks) = 2
    /\ deletions > 0
    /\ result[1].removed_lines_original = <<>>

LineCount(text) == Len(splitlines(text))

\* C7, as claimed: the result has as many lines as the original, plus the added,
\* minus the removed; the lines of the result counted as the lines joined into
\* its text or as the lines of its text
C7_LineCount ==
    Succeeded =>
        LET n == LineCount(original_text) + Len(result[1].added_lines)
                     - Len(result[1].removed_lines_original)
        IN  Len(out) = n \/ LineCount(result[1].text) = n

\* C7, amended: the lines joined into the result text are as many as the lines
\* of the original, plus the added, minus the deletion entries of the patch
C7_LineCountByDeletions ==
    Succeeded =>
        /\ result[1].text = JoinLines(out)
        /\ Len(out) = LineCount(original_text) + Len(result[1].added_lines) - deletions

\* lines were added and lines were deleted, and the result is not empty
C7_Witness ==
    /\ Succeeded
    /\ result[1].added_lines # <<>>
    /\ deletions > 0
    /\ out # <<>>

\* C8: every index in added_lines is a line index of the final result
C8_AddedInResult ==
    Succeeded => \A k \in Range(result[1].added_lines) : 0 <= k /\ k < Len(out)

\* C9: added_lines is as long as the patch has addition entries
C9_AddedCountsAdditions ==
    Succeeded => Len(result[1].added_lines) = additions

\* two hunks added lines at the same index
C9_Witness ==
    /\ Succeeded
    /\ Len(patch.hunks) = 2
    /\ Len(result[1].added_lines) = 2
    /\ result[1].added_lines[1] = result[1].added_lines[2]

\* C10: removed_lines_original is strictly ascending and holds line indices of
\* the original
C10_RemovedAscending ==
    Succeeded =>
        LET r == result[1].removed_lines_original
        IN  /\ \A k \in 1..(Len(r) - 1) : r[k] < r[k + 1]
            /\ \A k \in 1..Len(r) : 0 <= r[k] /\ r[k] < LineCount(original_text)

\* a later hunk removed an earlier line of the original: the sort reorders
C10_Witness ==
    /\ Succeeded
    /\ Len(removed_original_indices) = 2
    /\ removed_original_indices[1] > removed_original_indices[2]

\* ------------------------------------------------------- claims about parse

Parsed == parse_pc = "done"

Failed == parse_pc = "error"

\* the lines of the diff that start with @@, by their 1-based positions
HunkHeaderLines == {k \in 1..Len(diff_lines) : startswith(diff_lines[k], "@@")}

RECURSIVE HunkCount(_, _)
HunkCount(files, k) ==
    IF k > Len(files) THEN 0 ELSE Len(files[k].hunks) + HunkCount(files, k + 1)

\* C12, as claimed: every FilePatch that parse returns has a hunk
C12_HunksNonEmpty ==
    Parsed => \A k \in 1..Len(parsed[1]) : parsed[1][k].hunks # <<>>

\* C12, amended: the FilePatches that parse returns hold one hunk per @@ line
\* of the input and no other, so file headers followed by no hunk give a
\* FilePatch without hunks
C12_HunksAsHeadersMet ==
    Parsed => HunkCount(parsed[1], 1) = Cardinality(HunkHeaderLines)

\* of two files returned, one has two hunks and the other none
C12_Witness ==
    /\ Parsed
    /\ \E k, n \in 1..Len(parsed[1]) :
           parsed[1][k].hunks = <<>> /\ Len(parsed[1][n].hunks) = 2

ScanEnded == parse_pc = "scan" /\ scan_i >= Len(diff_lines)

\* C13: a scan that reaches the end of the input raises 'No file patches found'
\* when it recognised no header pair and returns its list, which is not empty,
\* when it recognised one; nothing else raises this error and no empty list is
\* returned
C13_NoPatchesFound ==
    /\ [][ScanEnded =>
            IF patches = <<>>
            THEN Failed' /\ error' = Some("No file patches found") /\ parsed' = None
            ELSE Parsed' /\ parsed' = Some(patches) /\ error' = None]_vars
    /\ [](error = Some("No file patches found") => scan_i >= Len(diff_lines) /\ patches = <<>>)
    /\ [](Parsed => parsed[1] # <<>>)

\* lines were scanned, none of them a header pair
C13_Witness ==
    /\ error = Some("No file patches found")
    /\ Len(diff_lines) >= 3
    /\ \E k \in 1..Len(diff_lines) : startswith(diff_lines[k], "+++ ")

\* a line that starts with the marker of a file header and is not that header
MalformedHeader(l) ==
    \/ startswith(l, "---") /\ RE_OLD_UNIFIED(l) = None
    \/ startswith(l, "+++") /\ RE_NEW_UNIFIED(l) = None
    \/ startswith(l, "***") /\ RE_OLD_CONTEXTISH(l) = None

\* C14, as claimed: a malformed file header met outside a hunk body makes parse
\* raise
C14_MalformedHeaderRaises ==
    [][Scanning /\ MalformedHeader(line) => Failed']_vars

\* C14, amended: a malformed file header met by the scan outside a hunk body is
\* skipped: the scan moves to the next line and nothing else changes
C14_MalformedHeaderSkipped ==
    [][Scanning /\ MalformedHeader(line) =>
            /\ scan_i' = scan_i + 1
            /\ UNCHANGED <<parse_pc, patches, cur_file, error, parsed>>]_vars

\* parse returned, and the first line of the diff was a malformed header
C14_Witness ==
    /\ Parsed
    /\ MalformedHeader(diff_lines[1])
    /\ Len(parsed[1]) = 1

\* the form of the old header a line is: "context", "unified" or "none"
OldHeaderForm(l) ==
    IF IsNoise(l) THEN "none"
    ELSE IF RE_OLD_CONTEXTISH(l) # None THEN "context"
    ELSE IF RE_OLD_UNIFIED(l) # None THEN "unified"
    ELSE "none"

OldHeader(l) ==
    IF OldHeaderForm(l) = "context" THEN RE_OLD_CONTEXTISH(l) ELSE RE_OLD_UNIFIED(l)

\* the new header that goes with an old header of this form
NewHeader(form, l) ==
    IF form = "context" THEN RE_NEW_CONTEXTISH(l) ELSE RE_NEW_UNIFIED(l)

\* the 0-based indices of the new header of the old header at index at: the
\* first line after it that is no noise, when it is a new header and one of
\* the window lines that follow the old header
NewHeaderWithin(lines, at, form, window) ==
    {j \in (at + 1)..Min(at + window, Len(lines) - 1) :
        /\ NewHeader(form, lines[j + 1]) # None
        /\ \A k \in (at + 1)..(j - 1) : IsNoise(lines[k + 1])}

\* what the scan does at an old header, its new header looked for in a window
HeaderPairStep(window) ==
    LET form == OldHeaderForm(line)
        found == NewHeaderWithin(diff_lines, scan_i, form, window)
    IN  IF found = {}
        THEN Failed' /\ patches' = patches
        ELSE \E j \in found :
                /\ patches' = Append(patches,
                       FilePatch(_clean_path(OldHeader(line)[1]),
                                 _clean_path(NewHeader(form, diff_lines[j + 1])[1]), <<>>))
                /\ cur_file' = Some(Len(patches'))
                /\ scan_i' = j + 1
                /\ parse_pc' = "scan"

\* C15, as claimed: after an old header of either form the new header is
\* looked for in the next three lines, noise skipped
C15_LookAheadThree ==
    [][Scanning /\ OldHeaderForm(line) # "none" => HeaderPairStep(3)]_vars

\* C15, amended: after a unified old header the new header is looked for in
\* the next three lines, noise skipped; after a context-like old header it has
\* to be the very next line
C15_LookAheadByForm ==
    [][Scanning /\ OldHeaderForm(line) # "none" =>
            HeaderPairStep(IF OldHeaderForm(line) = "unified" THEN 3 ELSE 1)]_vars

\* a unified pair was accepted with its new header three lines after the old
C15_Witness ==
    /\ Parsed
    /\ Len(diff_lines) >= 4
    /\ OldHeaderForm(diff_lines[1]) = "unified"
    /\ IsNoise(diff_lines[2])
    /\ IsNoise(diff_lines[3])
    /\ RE_NEW_UNIFIED(diff_lines[4]) # None

\* the hunk whose body is being read: the last hunk of the current file
cur_hunk == patches[cur_file[1]].hunks[Len(patches[cur_file[1]].hunks)]

\* the HunkLines of the body lines from .. to of a diff, in their order
RECURSIVE BodyLines(_, _, _)
BodyLines(lines, from, to) ==
    IF from > to THEN <<>>
    ELSE LET l == lines[from]
         IN  (IF l = "" THEN <<HunkLine(" ", "")>>
              ELSE IF startswith(l, "\\ No newline at end of file") THEN <<>>
              ELSE <<HunkLine(SubSeq(l, 1, 1), SubSeq(l, 2, Len(l)))>>)
             \o BodyLines(lines, from + 1, to)

\* a FilePatch list but for the lines of the last hunk of its k-th file
LastLinesEmptied(files, k) ==
    [files EXCEPT ![k].hunks[Len(files[k].hunks)].lines = <<>>]

\* the 1-based position of the header of the hunk whose body is being read
BodyStart == CHOOSE h \in HunkHeaderLines :
                 h <= scan_i /\ \A k \in HunkHeaderLines : k <= scan_i => k <= h

\* C16: a body line that is a terminator ends the body and is left to the
\* scan; any other line is appended as context, addition or deletion by its
\* first character with the rest as text, an empty line as an empty context,
\* a no-newline marker is passed over, and anything else raises; so the lines
\* of a hunk are the body lines read so far, in input order, with kinds ' ',
\* '+' and '-' only
C16_BodyClassification ==
    /\ [][parse_pc = "body" /\ scan_i < Len(diff_lines) =>
            IF \/ startswith(line, "@@") \/ startswith(line, "diff ")
               \/ RE_OLD_UNIFIED(line) # None \/ RE_OLD_CONTEXTISH(line) # None
            THEN parse_pc' = "scan" /\ scan_i' = scan_i /\ patches' = patches /\ error' = None
            ELSE IF line = "" \/ SubSeq(line, 1, 1) \in {" ", "+", "-"}
            THEN /\ cur_hunk' = [cur_hunk EXCEPT !.lines = @ \o BodyLines(diff_lines, scan_i + 1, scan_i + 1)]
                 /\ Len(cur_hunk'.lines) = Len(cur_hunk.lines) + 1
                 /\ LastLinesEmptied(patches', cur_file[1]) = LastLinesEmptied(patches, cur_file[1])
                 /\ scan_i' = scan_i + 1 /\ parse_pc' = "body" /\ error' = None
            ELSE IF startswith(line, "\\ No newline at end of file")
            THEN patches' = patches /\ scan_i' = scan_i + 1 /\ parse_pc' = "body" /\ error' = None
            ELSE Failed' /\ patches' = patches]_vars
    /\ [](parse_pc = "body" =>
            /\ cur_hunk.lines = BodyLines(diff_lines, BodyStart + 1, scan_i)
            /\ \A k \in 1..Len(cur_hunk.lines) : cur_hunk.lines[k].kind \in {" ", "+", "-"})

\* a hunk was read whose body is a deletion, an empty line and an addition
C16_Witness ==
    /\ Parsed
    /\ \E k \in 1..Len(parsed[1]) : \E h \in 1..Len(parsed[1][k].hunks) :
           parsed[1][k].hunks[h].lines
               = <<HunkLine("-", "a"), HunkLine(" ", ""), HunkLine("+", "a")>>

HeaderNumbers == 0..MaxHeaderNumber

\* the ways a range of a hunk header is written after its sign, each with the
\* start and length it stands for and its form: none, a start, a start and a
\* length
RangeParts(sign) ==
    {<<"", 1, 0, "none">>}
    \cup {<<" " \o sign \o str(o), o, 0, "start">> : o \in HeaderNumbers}
    \cup {<<" " \o sign \o str(o) \o "," \o str(n), o, n, "range">> :
             o \in HeaderNumbers, n \in HeaderNumbers}

\* the ways a hunk header ends: open, closed, closed with a label
Closings == {"", " @@", " @@ f"}

\* hunk headers written out: <<line, <<old_start, old_len, new_start, new_len>>,
\* form of the old range, form of the new range, closing>>
HeaderTable ==
    {<<"@@" \o o[1] \o n[1] \o c, <<o[2], o[3], n[2], n[3]>>, o[4], n[4], c>> :
        o \in RangeParts("-"), n \in RangeParts("+"), c \in Closings}

\* the three shapes: @@ -O,L +N,L @@ and @@ -O +N @@ with an optional label,
\* and the bare @@
ThreeShapes ==
    {e \in HeaderTable :
        \/ e[3] = "range" /\ e[4] = "range" /\ e[5] # ""
        \/ e[3] = "start" /\ e[4] = "start" /\ e[5] # ""
        \/ e[3] = "none" /\ e[4] = "none"}

\* a hunk header is scanned in a file
AtHunkHeader == Scanning /\ startswith(line, "@@") /\ cur_file # None

HeaderLines == {e[1] : e \in HeaderTable}

ThreeShapeLines == {e[1] : e \in ThreeShapes}

\* <<line, <<old_start, old_len, new_start, new_len>>>> of the headers written out
HeaderNumbersOf == {<<e[1], e[2]>> : e \in HeaderTable}

\* the step appends to the current file a hunk without lines, with the header
\* numbers written in line l, and does nothing else to the list
HunkCreated(l) ==
    /\ Len(patches') = Len(patches)
    /\ Len(patches'[cur_file[1]].hunks) = Len(patches[cur_file[1]].hunks) + 1
    /\ LET h == patches'[cur_file[1]].hunks[Len(patches'[cur_file[1]].hunks)]
       IN  /\ <<l, <<h.old_start, h.old_len, h.new_start, h.new_len>>>> \in HeaderNumbersOf
           /\ h.lines = <<>>
           /\ patches' = [patches EXCEPT ![cur_file[1]].hunks = Append(@, h)]
    /\ parse_pc' = "body"
    /\ scan_i' = scan_i + 1

BadHeaderRaised ==
    Failed' /\ error' = Some("Bad hunk header") /\ patches' = patches

OtherText(l) ==
    LET k == SkipSpace(l, 3)
    IN  k <= Len(l) /\ SubSeq(l, k, k) \notin {"-", "+", "@"}

C18_HunkBeforeFile ==
    /\ [][Scanning /\ startswith(line, "@@") /\ patches = <<>> =>
            Failed' /\ error' = Some("Hunk found before file headers")]_vars
    /\ [](Parsed => \A k \in HunkHeaderLines :
                        \E j \in 1..(k - 1) : OldHeaderForm(diff_lines[j]) # "none")
    /\ [](cur_file = (IF patches = <<>> THEN None ELSE Some(Len(patches))))

\* a hunk header raised before a file header, and a header pair comes after it
C18_Witness ==
    /\ error = Some("Hunk found before file headers")
    /\ \E k \in (scan_i + 2)..(Len(diff_lines) - 1) :
           /\ OldHeaderForm(diff_lines[k]) = "unified"
           /\ RE_NEW_UNIFIED(diff_lines[k + 1]) # None

NoisePrefixes ==
    {"diff ", "index ", "new file mode", "deleted file mode", "similarity index",
     "rename from", "rename to", "GIT binary patch", "Binary files "}

\* C19: outside a hunk body a line that starts with one of the nine noise
\* prefixes is passed over and the patch list and the current file stay as
\* they are; the scenario diff, with its preamble, with every kind of noise
\* before it, or without any, parses to one FilePatch of x with one hunk
C19_NoiseSkipped ==
    /\ [][Scanning /\ (\E p \in NoisePrefixes : startswith(line, p)) =>
            scan_i' = scan_i + 1 /\ UNCHANGED <<patches, cur_file, parse_pc, error, parsed>>]_vars
    /\ [](diff_text \in {PreambleDiff, PlainDiff, NoisyDiff} /\ (Parsed \/ Failed) =>
            parsed = Some(<<FilePatch("x", "x",
                              <<Hunk(1, 0, 1, 0,
                                     <<HunkLine("-", "a"), HunkLine("+", "b")>>)>>)>>))

\* the diff with every kind of noise before it was parsed
C19_Witness ==
    /\ Parsed
    /\ diff_text = NoisyDiff
    /\ Len(parsed[1]) = 1

\* seq without its last element
Front(seq) == SubSeq(seq, 1, Len(seq) - 1)

Last(seq) == seq[Len(seq)]

\* the lines of a diff that are old headers, in their order
OldHeaderLines(lines) == SelectSeq(lines, LAMBDA l : OldHeaderForm(l) # "none")

\* C20: a step that recognises a header pair appends one FilePatch without
\* hunks to the list; any other step leaves the list as it is or changes its
\* last FilePatch only, by one hunk appended or by one line appended to its
\* last hunk.  So a diff of unified header pairs gives one FilePatch per old
\* header, in their order, and the diff of two files gives the two FilePatches
\* with their paths and hunks
C20_FilesAndHunksInOrder ==
    /\ [][\/ patches' = patches
          \/ /\ Scanning /\ OldHeaderForm(line) # "none"
             /\ Front(patches') = patches
             /\ Last(patches').hunks = <<>>
             /\ Last(patches').old_path = _clean_path(OldHeader(line)[1])
          \/ /\ OldHeaderForm(line) = "none"
             /\ Len(patches') = Len(patches)
             /\ Front(patches') = Front(patches)
             /\ Last(patches').old_path = Last(patches).old_path
             /\ Last(patches').new_path = Last(patches).new_path
             /\ \/ Front(Last(patches').hunks) = Last(patches).hunks
                \/ /\ Front(Last(patches').hunks) = Front(Last(patches).hunks)
                   /\ Front(Last(Last(patches').hunks).lines) = Last(Last(patches).hunks).lines]_vars
    /\ [](Parsed /\ (\A k \in 1..Len(diff_lines) : OldHeaderForm(diff_lines[k]) # "context") =>
            /\ Len(parsed[1]) = Len(OldHeaderLines(diff_lines))
            /\ \A k \in 1..Len(parsed[1]) :
                   parsed[1][k].old_path
                       = _clean_path(RE_OLD_UNIFIED(OldHeaderLines(diff_lines)[k])[1]))
    /\ [](diff_text = TwoFilesDiff /\ (Parsed \/ Failed) =>
            parsed = Some(<<FilePatch("x", "x",
                              <<Hunk(1, 0, 1, 0, <<HunkLine("-", "a"), HunkLine("+", "b")>>),
                                Hunk(3, 0, 3, 0, <<HunkLine("+", "c")>>)>>),
                            FilePatch("y", "y",
                              <<Hunk(2, 1, 2, 0, <<HunkLine("-", "d")>>)>>)>>))

\* the diff of two files was parsed
C20_Witness ==
    /\ Parsed
    /\ diff_text = TwoFilesDiff
    /\ Len(parsed[1]) = 2

\* -------------------------------------------- claims about format_file_diff

\* C11: the text format_file_diff makes of a FilePatch that parse returned
\* parses to one FilePatch, and apply on the same original ends with it as it
\* ended with the first: both fail, or both return the same text, added_lines
\* and removed_lines_original
C11_RoundTrip ==
    /\ stage = "reparse" /\ parse_pc \in {"done", "error"} =>
            parse_pc = "done" /\ Len(parsed[1]) = 1
    /\ stage = "reapply" /\ Ended => result = first[1].result

\* both applies succeeded, with a line added and a line removed
C11_Witness ==
    /\ stage = "reapply"
    /\ pc = "done"
    /\ result = first[1].result
    /\ result[1].added_lines # <<>>
    /\ result[1].removed_lines_original # <<>>

\* ------------------------------------------------ claims about _clean_path

\* the path of a header line before its first tab
BeforeTab(p) == SubSeq(p, 1, FindTab(p, 1) - 1)

\* without one leading a/ or b/
Unprefixed(p) ==
    IF startswith(p, "a/") \/ startswith(p, "b/") THEN From(p, 3) ELSE p

\* the path as C21 describes it
Normalised(p) ==
    LET q == rstrip(BeforeTab(p))
    IN  IF q = "/dev/null" THEN "/dev/null" ELSE strip(Unprefixed(q))

\* the diff is a header pair of one form in its first two lines
PairOf(old_mark, new_mark) ==
    /\ Len(diff_lines) >= 2
    /\ HeaderPath(diff_lines[1], old_mark) # None
    /\ HeaderPath(diff_lines[2], new_mark) # None

\* C21: the paths of a FilePatch are the paths of its header lines without
\* the timestamp after the first tab, without trailing white space and without
\* a leading a/ or b/, and /dev/null (once timestamp and trailing white space
\* are removed) is kept as it is; no path keeps a tab or trailing white space
C21_PathNormalised ==
    (Parsed /\ (PairOf("---", "+++") \/ PairOf("***", "---"))) =>
        LET old_mark == IF PairOf("***", "---") THEN "***" ELSE "---"
            new_mark == IF PairOf("***", "---") THEN "---" ELSE "+++"
            fp == parsed[1][1]
        IN  /\ fp.old_path = Normalised(HeaderPath(diff_lines[1], old_mark)[1])
            /\ fp.new_path = Normalised(HeaderPath(diff_lines[2], new_mark)[1])
            /\ \A r \in {fp.old_path, fp.new_path} :
                   /\ FindTab(r, 1) > Len(r)
                   /\ rstrip(r) = r
                   /\ rstrip(BeforeTab(r)) = "/dev/null" => r = "/dev/null"

\* a header pair with a prefix and a timestamp on one side and /dev/null with a
\* timestamp on the other was parsed
C21_Witness ==
    /\ Parsed
    /\ diff_lines = <<"--- a/x\t2020-01-01 10:00", "+++ /dev/null\t1 ">>
    /\ parsed[1] = <<FilePatch("x", "/dev/null", <<>>)>>

\* ------------------------------------------------- claims about anchoring

consuming == Consuming(hunk.lines)

\* a hunk with a consuming sequence has been anchored
Anchored == pc = "verify" /\ consuming # <<>>

\* the match predicate holds at position p of the working buffer
Holds(p) == p \in 0..Len(out) /\ _hunk_matches_from(out, consuming, p)

\* the count of consuming entries that are not empty-text context
minNeed == Len(SelectSeq(consuming, LAMBDA l : ~EmptyContext(l)))

maxStart == Max(0, Len(out) - minNeed)

\* clamp(old_start - 1 + bias, 0, len(out))
ClampedGuess == Max(0, Min(Len(out), hunk.old_start - 1 + line_bias))

\* guess; guess - 1, guess + 1, ..., guess - fuzzy, guess + fuzzy; 0 .. maxStart
SearchOrder(guess) ==
    <<guess>>
    \o [k \in 1..(2 * fuzzy_context) |->
            IF k % 2 = 1 THEN guess - ((k + 1) \div 2) ELSE guess + (k \div 2)]
    \o [k \in 1..(maxStart + 1) |-> k - 1]

\* the first position of the order at which the match predicate holds
FirstMatch(order) ==
    LET ks == {k \in 1..Len(order) : Holds(order[k])}
    IN  IF ks = {} THEN None
        ELSE Some(order[CHOOSE k \in ks : \A j \in ks : k <= j])

\* both sides at distance d match and nothing closer does
BothSidesFirstAt(guess, d) ==
    /\ Holds(guess - d)
    /\ Holds(guess + d)
    /\ \A e \in 0..(d - 1) : ~Holds(guess - e) /\ ~Holds(guess + e)

\* C22, as claimed: the anchor is the first match in the order that starts at
\* guess = clamp(old_start - 1 + bias, 0, len(out))
C22_SearchFromGuess ==
    Anchored =>
        /\ Some(anchor_index) = FirstMatch(SearchOrder(ClampedGuess))
        /\ \A d \in 1..fuzzy_context :
               BothSidesFirstAt(ClampedGuess, d) => anchor_index = ClampedGuess - d

\* C22, amended: the anchor is the first match in the order that starts at
\* guess = clamp(old_start - 1 + bias, 0, maxStart), the guess brought back to
\* the last position the global scan would try; when both guess - d and
\* guess + d match and nothing closer does, the anchor is guess - d
C22_SearchFromGuessWithinScan ==
    Anchored =>
        LET guess == Max(0, Min(maxStart, hunk.old_start - 1 + line_bias))
        IN  /\ Some(anchor_index) = FirstMatch(SearchOrder(guess))
            /\ \A d \in 1..fuzzy_context :
                   BothSidesFirstAt(guess, d) => anchor_index = guess - d

\* after a hunk that moved the bias, the guess does not match, both its
\* neighbours do, and the left one is the anchor
C22_Witness ==
    /\ Anchored
    /\ line_bias # 0
    /\ fuzzy_context >= 1
    /\ BothSidesFirstAt(guess_index, 1)
    /\ anchor_index = guess_index - 1

\* the smallest position of 0..maxStart at which the match predicate holds
SmallestMatch ==
    LET ps == {p \in 0..maxStart : Holds(p)}
    IN  IF ps = {} THEN None ELSE Some(CHOOSE p \in ps : \A q \in ps : p <= q)

\* C23, as claimed: with fuzzy_context = 0 the anchor is
\* guess = clamp(old_start - 1 + bias, 0, len(out)) or, when the consuming
\* sequence does not match there, the smallest matching position of the scan
C23_GuessOrScan ==
    (Anchored /\ fuzzy_context = 0) =>
        IF Holds(ClampedGuess)
        THEN anchor_index = ClampedGuess
        ELSE Some(anchor_index) = SmallestMatch

\* C23, amended: with fuzzy_context = 0 the anchor is
\* guess = clamp(old_start - 1 + bias, 0, maxStart) or, when the consuming
\* sequence does not match there, the smallest matching position of the scan
C23_GuessWithinScanOrScan ==
    (Anchored /\ fuzzy_context = 0) =>
        LET guess == Max(0, Min(maxStart, hunk.old_start - 1 + line_bias))
        IN  IF Holds(guess)
            THEN anchor_index = guess
            ELSE Some(anchor_index) = SmallestMatch

\* the guess does not match, a neighbour of it does, and without a window the
\* scan finds another position, further from the guess
C23_Witness ==
    /\ Anchored
    /\ fuzzy_context = 0
    /\ ~Holds(guess_index)
    /\ Holds(guess_index + 1)
    /\ anchor_index < guess_index - 1

\* apply is about to anchor a hunk that has a consuming sequence
AtAnchoring == pc = "hunk" /\ hi <= Len(patch.hunks) /\ consuming # <<>>

NoMatch == \A p \in 0..Len(out) : ~Holds(p)

\* C24: anchoring a hunk with a consuming sequence raises 'Failed to locate
\* hunk' exactly when the match predicate holds at no position of 0..len(out);
\* the scan over 0..maxStart finds a position whenever there is one; an anchor
\* that is found is a position at which the match predicate holds
C24_AnchoringFailureExact ==
    /\ [][AtAnchoring =>
            /\ (pc' = "failed") <=> NoMatch
            /\ (pc' = "failed") => result' = None
            /\ (pc' = "verify") <=> ~NoMatch
            /\ (SmallestMatch = None) <=> NoMatch]_vars
    /\ [](Anchored => Holds(anchor_index))

\* the second hunk was not found in a buffer that has the lines it needs
C24_Witness ==
    /\ pc = "failed"
    /\ hi = 2
    /\ consuming # <<>>
    /\ minNeed >= 1
    /\ Len(out) > minNeed
    /\ NoMatch

\* ------------------------------------------- claims about insert-only hunks

\* the hunk at hand has no context and no deletion entry
InsertOnly == hi <= Len(patch.hunks) /\ consuming = <<>>

\* insertions minus deletions of the hunks before the hunk at hand
NetBias ==
    CountInHunks(SubSeq(patch.hunks, 1, hi - 1), "+", 1)
        - CountInHunks(SubSeq(patch.hunks, 1, hi - 1), "-", 1)

\* C25: an insert-only hunk is anchored at clamp(old_start - 1 + bias, 0,
\* len(out)), bias being the insertions minus the deletions of the hunks
\* before it, and neither its anchoring nor its verification fails; its
\* additions go into the buffer one after the other from that index on
C25_InsertOnlyAnchor ==
    /\ [][(pc = "hunk" /\ InsertOnly) =>
            /\ pc' = "verify"
            /\ anchor_index' = Max(0, Min(Len(out), hunk.old_start - 1 + NetBias))]_vars
    /\ [][(pc = "verify" /\ InsertOnly) => pc' # "failed"]_vars
    /\ []((pc = "hunk" /\ hi <= Len(patch.hunks)) => line_bias = NetBias)
    /\ []((pc = "apply" /\ InsertOnly) =>
            /\ cur = anchor_index + li - 1
            /\ \A k \in 1..(li - 1) :
                   /\ out[anchor_index + k] = hunk.lines[k].text
                   /\ added_lines[Len(added_lines) - (li - 1) + k] = anchor_index + k - 1)

\* the second hunk, insert-only, has put two lines into the buffer, from an
\* anchor that the first hunk has moved
C25_Witness ==
    /\ pc = "apply"
    /\ hi = 2
    /\ InsertOnly
    /\ li = 3
    /\ line_bias - 2 # 0
    /\ anchor_index # Max(0, Min(Len(out) - 2, hunk.old_start - 1))

\* ---------------------------------------- claims about the match predicate

\* the consuming sequence can be laid on the lines from cur on: an empty-text
\* context entry on some number of consecutive blank lines, zero or more, any
\* other entry on one line that is its text
RECURSIVE Aligns(_, _, _, _)
Aligns(lines, entries, k, at) ==
    IF k > Len(entries) THEN TRUE
    ELSE IF EmptyContext(entries[k])
         THEN \E n \in 0..(SkipBlanks(lines, at) - at) :
                  Aligns(lines, entries, k + 1, at + n)
         ELSE /\ LineIs(lines, at, entries[k].text)
              /\ Aligns(lines, entries, k + 1, at + 1)

\* the hunk at hand has a consuming sequence and has been anchored, or was not
\* found; the buffer is the one the match predicate was evaluated on
AfterAnchoring == pc \in {"verify", "failed"} /\ consuming # <<>>

\* C26: the match predicate accepts every start position from which the
\* consuming sequence can be aligned with the buffer, each empty-text context
\* entry covering zero or more consecutive blank lines
C26_BlankRunAlignment ==
    AfterAnchoring =>
        /\ \A p \in 0..Len(out) :
               Aligns(out, consuming, 1, p) => _hunk_matches_from(out, consuming, p)
        /\ pc = "failed" => \A p \in 0..Len(out) : ~Aligns(out, consuming, 1, p)

NoBlankLines == \A k \in 1..Len(out) : out[k] # ""

WithoutEmptyContext(entries) == SelectSeq(entries, LAMBDA l : ~EmptyContext(l))

\* C27: on a buffer without blank lines the match predicate accepts a start
\* position for the consuming sequence exactly when it accepts it for the
\* sequence without its empty-text context entries
C27_EmptyContextNoAdvance ==
    (AfterAnchoring /\ NoBlankLines) =>
        \A p \in 0..Len(out) :
            _hunk_matches_from(out, consuming, p)
                <=> _hunk_matches_from(out, WithoutEmptyContext(consuming), p)

\* a hunk with an empty-text context entry between two other entries was
\* anchored in a buffer of two lines, none blank
C27_Witness ==
    /\ Anchored
    /\ NoBlankLines
    /\ Len(out) >= 2
    /\ Len(WithoutEmptyContext(consuming)) >= 1
    /\ Len(WithoutEmptyContext(consuming)) < Len(consuming)

\* ------------------------------------------- claims about the working state

working_state == <<out, origin_map, line_bias, added_lines, removed_original_indices>>

\* C28: anchoring and the verify pass leave the buffer, the origin map, the
\* bias and the added and removed lists as they are; they change only in the
\* apply pass, which starts only when the verify pass has gone through every
\* line of the hunk; a hunk that fails leaves the working state as the hunks
\* before it left it
C28_VerifyThenMutate ==
    /\ [][(pc \in {"hunk", "verify"}) => UNCHANGED working_state]_vars
    /\ [][working_state' # working_state => pc = "apply" /\ pc' = "apply"]_vars
    /\ [][(pc # "apply" /\ pc' = "apply") =>
            /\ pc = "verify"
            /\ li > Len(hunk.lines)
            /\ cur' = anchor_index]_vars
    /\ [](pc = "failed" =>
            /\ line_bias = NetBias
            /\ Len(out) = Len(orig_lines) + NetBias
            /\ Len(origin_map) = Len(out)
            /\ Len(added_lines) = CountInHunks(SubSeq(patch.hunks, 1, hi - 1), "+", 1))

\* the first hunk has removed a line, the second one has deletions and was
\* not found
C28_Witness ==
    /\ pc = "failed"
    /\ hi = 2
    /\ removed_original_indices # <<>>
    /\ CountKind(hunk.lines, "-", 1) > 0

\* the entries of the origin map that are original line indices, in order
OriginIndices == SelectSeq(origin_map, LAMBDA o : o # None)

\* the texts of the addition entries of the hunks up to the hunk at hand
AddedTexts ==
    UNION {{l.text : l \in {m \in Range(patch.hunks[h].lines) : m.kind = "+"}} :
              h \in 1..Min(hi, Len(patch.hunks))}

\* C29: the origin map is as long as the buffer; an entry that is an original
\* index k stands at a line that is line k of the original; these entries
\* ascend strictly from left to right; an entry that is the sentinel stands at
\* a line that an addition inserted
C29_OriginMap ==
    LET original == orig_lines
        indices  == OriginIndices
        added    == AddedTexts
    IN  /\ Len(origin_map) = Len(out)
        /\ \A i \in 1..Len(origin_map) :
               IF origin_map[i] # None
               THEN /\ origin_map[i][1] \in 0..(Len(original) - 1)
                    /\ out[i] = original[origin_map[i][1] + 1]
               ELSE out[i] \in added
        /\ \A i \in 1..(Len(indices) - 1) : indices[i][1] < indices[i + 1][1]
        /\ Inserted(origin_map) <= Len(added_lines)
        /\ Len(indices) = Len(original) - Len(removed_original_indices)

\* in the apply pass, after a deletion and an insertion: a sentinel stands
\* before an original line whose index is no longer its place in the buffer
C29_Witness ==
    /\ pc = "apply"
    /\ removed_original_indices # <<>>
    /\ \E i \in 1..(Len(origin_map) - 1) :
           /\ origin_map[i] = None
           /\ origin_map[i + 1] # None
           /\ origin_map[i + 1][1] # i

\* ------------------------------------------- claims about the verify pass

\* C30: the verify pass never fails: from the position _find_hunk_anchor
\* returned, every line of the hunk passes its check, so no step of the
\* verify pass raises 'Context mismatch' or 'Deletion mismatch', and apply
\* fails only where anchoring finds no position
C30_VerifyNeverFails ==
    /\ []((pc = "verify" /\ li <= Len(hunk.lines)) => VerifyLine(out, hl, cur) # None)
    /\ [][pc = "verify" => pc' # "failed"]_vars
    /\ [][pc' = "failed" => (pc = "failed" \/ (AtAnchoring /\ NoMatch))]_vars
    /\ [](pc # "crashed")

\* the verify pass has gone through a second hunk of two consuming entries,
\* one of them an empty-text context entry, anchored away from its guess
C30_Witness ==
    /\ pc = "verify"
    /\ hi = 2
    /\ li > Len(hunk.lines)
    /\ Len(consuming) = 2
    /\ Len(WithoutEmptyContext(consuming)) = 1
    /\ anchor_index # guess_index
    /\ cur >= anchor_index + 2

====
